---- MODULE Spec2Model ----
(***************************************************************************)
(* hunter: read organisation domains from a CSV file, look each one up at  *)
(* hunter.io and write one flattened CSV row per discovered email address. *)
(* The model follows src/src/main.rs: the process is one sequential        *)
(* program (pc), the environment supplies the KEY variable, the command    *)
(* line, the input file, the state of the output path and the answers of   *)
(* the upstream service.  The output file on disk and the csv writer's     *)
(* in-memory buffer are kept apart, because the two ways the program ends  *)
(* (std::process::exit, return from main) treat the buffer differently.    *)
(* Assumption: once the output file is open, writes to it succeed; a       *)
(* failing device is outside the model.                                    *)
(***************************************************************************)
EXTENDS Integers, Sequences, FiniteSets, TLC

VARIABLES
    env,            \* [key: state of the KEY variable, oldOutput: cells at the output path before the run]
    inputFile,      \* [header: column names, rows: sequence of rows of cells]
    pc,             \* position of main
    exitCode,       \* -1 while running, then the process's exit code
    inputOpened,    \* Reader::from_path succeeded
    outputCreated,  \* WriterBuilder::from_path succeeded (file created/truncated)
    idx,            \* number of input rows the reader has yielded
    cur,            \* the Domain being processed (line 128)
    resp,           \* the reqwest::Response in hand (line 132)
    hunter,         \* the decoded data of the current response (line 134)
    pending,        \* emails of hunter.data.emails not yet iterated (line 145)
    headerState,    \* csv writer: "Write" until the header went out, then "DidWrite"
    buf,            \* csv writer: cells buffered in memory
    disk,           \* cells of the output file on disk
    issued,         \* history: record indices a lookup was issued for, in order
    inFlight,       \* history: lookups issued and neither completed nor failed
    statuses,       \* history: HTTP status of the response received for each record
    results,        \* history: decoded data of each completed lookup, by record
    handed,         \* history: rows given to wtr.serialize, [rec, row], in order
    failedAt,       \* history: record whose lookup failed (0: none)
    malformedAt,    \* history: input row that failed to parse (0: none)
    lookup,         \* flattening in isolation: the LookupResult
    rows            \* flattening in isolation: the rows produced

vars == <<env, inputFile, pc, exitCode, inputOpened, outputCreated, idx, cur,
          resp, hunter, pending, headerState, buf, disk, issued, inFlight,
          statuses, results, handed, failedAt, malformedAt, lookup, rows>>

(* Bounds of the model. *)
MaxRecords == 2     \* input rows
MaxEmails == 2      \* email entries in one response
BufCap == 50        \* capacity of the csv writer's buffer, in cells

(***************************************************************************)
(* Data model                                                              *)
(***************************************************************************)
None == <<>>
Some(x) == <<x>>

Range(s) == {s[i] : i \in 1..Len(s)}

RECURSIVE SeqsUpTo(_, _)
SeqsUpTo(S, n) ==
    IF n = 0 THEN {<<>>}
    ELSE LET shorter == SeqsUpTo(S, n - 1)
         IN shorter \cup {Append(s, x) : s \in {t \in shorter : Len(t) = n - 1}, x \in S}

IsPrefix(s, t) == Len(s) <= Len(t) /\ SubSeq(t, 1, Len(s)) = s

(* struct Source *)
Source(d) ==
    [domain |-> d, uri |-> "http://" \o d \o "/team", extracted_on |-> "2020-01-01",
     last_seen_on |-> "2020-06-01", still_on_page |-> TRUE]

(* struct Email: the j-th entry upstream reports for domain d. *)
Email(d, j) ==
    [value |-> "e" \o ToString(j) \o "@" \o d,
     type |-> IF j = 1 THEN "personal" ELSE "generic",
     confidence |-> 100 - 10 * j,
     sources |-> IF j = 1 THEN <<Source(d)>> ELSE <<>>,
     first_name |-> IF j = 1 THEN Some("Jane") ELSE None,
     last_name |-> IF j = 1 THEN Some("Doe") ELSE None,
     position |-> None, seniority |-> None, department |-> None,
     linkedin |-> None, twitter |-> None, phone_number |-> None]

(* struct Data: what upstream reports for domain d, with k email entries. *)
Data(d, k) ==
    [domain |-> d, disposable |-> FALSE, webmail |-> FALSE, accept_all |-> TRUE,
     pattern |-> None, organization |-> Some("Org " \o d), country |-> Some("US"),
     state |-> Some("CA"), emails |-> [j \in 1..k |-> Email(d, j)]]

(* struct Flattened: its fields in declaration order, as serde names them. *)
FieldNames ==
    <<"domain", "disposable", "webmail", "accept_all", "pattern", "organization",
      "country", "state", "value", "type", "confidence", "first_name", "last_name",
      "position", "seniority", "department", "linkedin", "twitter", "phone_number">>

(***************************************************************************)
(* Flattening (the body of the loop over hunter.data.emails)               *)
(***************************************************************************)
(* Variant of MakeFlattened with a copy-paste slip: state is taken from country. *)
MakeFlattened_StateFromCountry(data, email) ==
    [domain |-> data.domain, disposable |-> data.disposable, webmail |-> data.webmail,
     accept_all |-> data.accept_all, pattern |-> data.pattern,
     organization |-> data.organization, country |-> data.country,
     state |-> data.country,
     value |-> email.value, type |-> email.type, confidence |-> email.confidence,
     first_name |-> email.first_name, last_name |-> email.last_name,
     position |-> email.position, seniority |-> email.seniority,
     department |-> email.department, linkedin |-> email.linkedin,
     twitter |-> email.twitter, phone_number |-> email.phone_number]

MakeFlattened(data, email) ==
    [domain |-> data.domain, disposable |-> data.disposable, webmail |-> data.webmail,
     accept_all |-> data.accept_all, pattern |-> data.pattern,
     organization |-> data.organization, country |-> data.country,
     state |-> data.state,
     value |-> email.value, type |-> email.type, confidence |-> email.confidence,
     first_name |-> email.first_name, last_name |-> email.last_name,
     position |-> email.position, seniority |-> email.seniority,
     department |-> email.department, linkedin |-> email.linkedin,
     twitter |-> email.twitter, phone_number |-> email.phone_number]

(* All rows of one response, in the order the loop produces them. *)
Flatten(data) == [j \in 1..Len(data.emails) |-> MakeFlattened(data, data.emails[j])]

(***************************************************************************)
(* CSV output (csv::Writer with has_headers(true))                         *)
(***************************************************************************)
EncBool(b) == IF b THEN "true" ELSE "false"
EncOpt(o) == IF o = None THEN "" ELSE o[1]
EncNum(n) == ToString(n)

Terminator == "\n"

HeaderRecord == FieldNames \o <<Terminator>>

EncodeRow(f) ==
    <<f.domain, EncBool(f.disposable), EncBool(f.webmail), EncBool(f.accept_all),
      EncOpt(f.pattern), EncOpt(f.organization), EncOpt(f.country), EncOpt(f.state),
      f.value, f.type, EncNum(f.confidence), EncOpt(f.first_name), EncOpt(f.last_name),
      EncOpt(f.position), EncOpt(f.seniority), EncOpt(f.department),
      EncOpt(f.linkedin), EncOpt(f.twitter), EncOpt(f.phone_number),
      Terminator>>

(* Cells into the writer w = [header, buf, disk].  The writer buffers up to
   BufCap cells; a cell that finds the buffer full makes the writer write the
   whole buffer out to the file first.  So of the cells buffered and given,
   whole buffers have reached the file and the rest, at least one cell, waits
   in memory. *)
WriteCells(w, cells) ==
    LET all == w.buf \o cells
        n == Len(all)
        flushed == IF n = 0 THEN 0 ELSE BufCap * ((n - 1) \div BufCap)
    IN [w EXCEPT !.disk = w.disk \o SubSeq(all, 1, flushed),
                 !.buf = SubSeq(all, flushed + 1, n)]

(* Variant of Serialize that never records that the header went out. *)
Serialize_HeaderEveryRow(w, row) ==
    WriteCells(WriteCells(w, HeaderRecord), EncodeRow(row))

(* wtr.serialize(row): the header goes out with the first row only. *)
Serialize(w, row) ==
    IF w.header = "Write"
    THEN WriteCells(WriteCells([w EXCEPT !.header = "DidWrite"], HeaderRecord),
                    EncodeRow(row))
    ELSE WriteCells(w, EncodeRow(row))

(***************************************************************************)
(* CSV input (csv::Reader, deserialising struct Domain)                    *)
(***************************************************************************)
ColumnIndex(header, name) == CHOOSE c \in 1..Len(header) : header[c] = name

(* One row into a Domain: the row must have as many cells as the header and
   the header must name both fields. *)
ParseRow(header, row) ==
    IF Len(row) = Len(header) /\ {"name", "domain"} \subseteq Range(header)
    THEN [ok |-> TRUE,
          val |-> [name |-> row[ColumnIndex(header, "name")],
                   domain |-> row[ColumnIndex(header, "domain")]]]
    ELSE [ok |-> FALSE]

(***************************************************************************)
(* Upstream answers and their decoding (r.json::<Hunter>())                *)
(***************************************************************************)
HunterBody(d, k) == [data |-> Data(d, k), meta |-> [results |-> k, limit |-> 100, offset |-> 0]]

(* Bodies that are no Hunter: upstream's error envelope, and a result
   without its meta block. *)
ErrorBody == [errors |-> <<[id |-> "too_many_requests", code |-> 429]>>]

PartialBody(d) == [data |-> Data(d, 1)]

Statuses == {200, 429}

Responses(d) ==
    {[kind |-> "transport_error"]} \cup
    {[kind |-> "http", status |-> s, body |-> b] :
        s \in Statuses, b \in {ErrorBody, PartialBody(d)} \cup {HunterBody(d, k) : k \in 0..MaxEmails}}

(* Both fields of Hunter are required; fields it does not name are ignored. *)
DecodeHunter(body) ==
    IF {"data", "meta"} \subseteq DOMAIN body
    THEN [ok |-> TRUE, val |-> [data |-> body.data, meta |-> body.meta]]
    ELSE [ok |-> FALSE]

(***************************************************************************)
(* The environment of one run                                              *)
(***************************************************************************)
Headers == {<<"name", "domain">>, <<"domain", "name">>, <<"name", "website">>}

(* Row i of a file with the given header, n cells long. *)
RowCells(header, i, n) ==
    [c \in 1..n |->
        IF c > Len(header) THEN "extra" \o ToString(i)
        ELSE IF header[c] = "domain" THEN "d" \o ToString(i) \o ".com"
        ELSE IF header[c] = "name" THEN "Org" \o ToString(i)
        ELSE "www" \o ToString(i)]

InputFiles ==
    UNION {{[header |-> h, rows |-> [i \in 1..n |-> RowCells(h, i, lens[i])]] :
                lens \in [1..n -> {Len(h) - 1, Len(h), Len(h) + 1}]} :
           h \in Headers, n \in 0..MaxRecords}

StaleOutput == <<"left over from an earlier run", Terminator>>

(* env::var_os("KEY"): absent, present and valid Unicode, present and not. *)
KeyStates == {"unset", "valid", "not_unicode"}

NoDomain == [name |-> "", domain |-> ""]
NoResponse == [kind |-> "none"]

(***************************************************************************)
(* The two ways the process ends                                           *)
(***************************************************************************)
(* std::process::exit(code): no destructor runs, so what the csv writer still
   holds in memory never reaches the file. *)
ProcessExit(code) ==
    /\ pc' = "exit"
    /\ exitCode' = code
    /\ buf' = <<>>
    /\ disk' = disk

(* main returns (Ok at the end, Err through `?`): the writer, if there is
   one, is dropped and its Drop writes the buffer out; Err exits with 1. *)
ReturnFromMain(code) ==
    /\ pc' = "exit"
    /\ exitCode' = code
    /\ disk' = disk \o buf
    /\ buf' = <<>>

(* A panic unwinds main: values are dropped as on a return, and the process
   ends with Rust's panic exit code. *)
Panic == ReturnFromMain(101)

(***************************************************************************)
(* main                                                                    *)
(***************************************************************************)
Init ==
    /\ env \in [key : KeyStates, oldOutput : {<<>>, StaleOutput}]
    /\ inputFile \in InputFiles
    /\ pc = "start"
    /\ exitCode = -1
    /\ inputOpened = FALSE
    /\ outputCreated = FALSE
    /\ idx = 0
    /\ cur = NoDomain
    /\ resp = NoResponse
    /\ hunter = Data("", 0)
    /\ pending = <<>>
    /\ headerState = "Write"
    /\ buf = <<>>
    /\ disk = env.oldOutput
    /\ issued = <<>>
    /\ inFlight = 0
    /\ statuses = <<>>
    /\ results = <<>>
    /\ handed = <<>>
    /\ failedAt = 0
    /\ malformedAt = 0
    /\ lookup = Data("", 0)
    /\ rows = <<>>

(* Variant of GetApiKey that does not stop when KEY is unset. *)
GetApiKey_KeyCheckedLater ==
    /\ pc = "start"
    /\ pc' = "args"
    /\ UNCHANGED <<env, inputFile, exitCode, inputOpened, outputCreated, idx, cur, resp,
                   hunter, pending, headerState, buf, disk, issued, inFlight, statuses,
                   results, handed, failedAt, malformedAt, lookup, rows>>

(* let api_key = get_api_key(); None prints the hint and exits with 1; a
   value that is not Unicode makes to_str().unwrap() panic. *)
GetApiKey ==
    /\ pc = "start"
    /\ CASE env.key = "valid" -> pc' = "args" /\ UNCHANGED <<exitCode, buf, disk>>
         [] env.key = "unset" -> ProcessExit(1)
         [] env.key = "not_unicode" -> Panic
    /\ UNCHANGED <<env, inputFile, inputOpened, outputCreated, idx, cur, resp, hunter,
                   pending, headerState, issued, inFlight, statuses, results, handed,
                   failedAt, malformedAt, lookup, rows>>

(* let opt = Opt::from_args(); a command line that does not parse ends the
   process with a usage error. *)
ParseArgs ==
    /\ pc = "args"
    /\ \E ok \in BOOLEAN :
         IF ok
         THEN pc' = "open_input" /\ UNCHANGED <<exitCode, buf, disk>>
         ELSE ProcessExit(1)
    /\ UNCHANGED <<env, inputFile, inputOpened, outputCreated, idx, cur, resp, hunter,
                   pending, headerState, issued, inFlight, statuses, results, handed,
                   failedAt, malformedAt, lookup, rows>>

(* let mut rdr = Reader::from_path(opt.input)?; *)
OpenReader ==
    /\ pc = "open_input"
    /\ \E ok \in BOOLEAN :
         IF ok
         THEN /\ inputOpened' = TRUE
              /\ pc' = "open_output"
              /\ UNCHANGED <<exitCode, buf, disk>>
         ELSE /\ ReturnFromMain(1)
              /\ UNCHANGED inputOpened
    /\ UNCHANGED <<env, inputFile, outputCreated, idx, cur, resp, hunter, pending,
                   headerState, issued, inFlight, statuses, results, handed, failedAt,
                   malformedAt, lookup, rows>>

(* Variant of OpenWriter that writes the header when the file is opened. *)
OpenWriter_HeaderAtOpen ==
    /\ pc = "open_output"
    /\ \E ok \in BOOLEAN :
         IF ok
         THEN /\ outputCreated' = TRUE
              /\ disk' = <<>>
              /\ buf' = HeaderRecord
              /\ headerState' = "DidWrite"
              /\ pc' = "loop"
              /\ UNCHANGED exitCode
         ELSE /\ ReturnFromMain(1)
              /\ UNCHANGED <<outputCreated, headerState>>
    /\ UNCHANGED <<env, inputFile, inputOpened, idx, cur, resp, hunter, pending, issued,
                   inFlight, statuses, results, handed, failedAt, malformedAt, lookup,
                   rows>>

(* let mut wtr = WriterBuilder::new().has_headers(true).from_path(opt.output)?;
   the file is created, or truncated when it exists; nothing is written yet. *)
OpenWriter ==
    /\ pc = "open_output"
    /\ \E ok \in BOOLEAN :
         IF ok
         THEN /\ outputCreated' = TRUE
              /\ disk' = <<>>
              /\ buf' = <<>>
              /\ headerState' = "Write"
              /\ pc' = "loop"
              /\ UNCHANGED exitCode
         ELSE /\ ReturnFromMain(1)
              /\ UNCHANGED <<outputCreated, headerState>>
    /\ UNCHANGED <<env, inputFile, inputOpened, idx, cur, resp, hunter, pending, issued,
                   inFlight, statuses, results, handed, failedAt, malformedAt, lookup,
                   rows>>

(* Variant of NextRecord that skips a row that does not parse. *)
NextRecord_SkipMalformed ==
    /\ pc = "loop"
    /\ IF idx = Len(inputFile.rows)
       THEN /\ pc' = "flush"
            /\ UNCHANGED <<exitCode, idx, cur, buf, disk, malformedAt>>
       ELSE LET r == ParseRow(inputFile.header, inputFile.rows[idx + 1])
            IN /\ idx' = idx + 1
               /\ IF r.ok
                  THEN /\ cur' = r.val
                       /\ pc' = "request"
                       /\ UNCHANGED <<exitCode, buf, disk, malformedAt>>
                  ELSE /\ malformedAt' = idx + 1
                       /\ pc' = "loop"
                       /\ UNCHANGED <<exitCode, buf, disk, cur>>
    /\ UNCHANGED <<env, inputFile, inputOpened, outputCreated, resp, hunter, pending,
                   headerState, issued, inFlight, statuses, results, handed, failedAt,
                   lookup, rows>>

(* for result in rdr.deserialize() { let domain: Domain = result?; ... the
   URL is built from the domain, the key and the limit (the base URL is a
   constant that parses, so that `?` never returns). *)
NextRecord ==
    /\ pc = "loop"
    /\ IF idx = Len(inputFile.rows)
       THEN /\ pc' = "flush"
            /\ UNCHANGED <<exitCode, idx, cur, buf, disk, malformedAt>>
       ELSE LET r == ParseRow(inputFile.header, inputFile.rows[idx + 1])
            IN /\ idx' = idx + 1
               /\ IF r.ok
                  THEN /\ cur' = r.val
                       /\ pc' = "request"
                       /\ UNCHANGED <<exitCode, buf, disk, malformedAt>>
                  ELSE /\ malformedAt' = idx + 1
                       /\ ReturnFromMain(1)
                       /\ UNCHANGED cur
    /\ UNCHANGED <<env, inputFile, inputOpened, outputCreated, resp, hunter, pending,
                   headerState, issued, inFlight, statuses, results, handed, failedAt,
                   lookup, rows>>

(* reqwest::get(hunter_url): the request goes out. *)
SendRequest ==
    /\ pc = "request"
    /\ issued' = Append(issued, idx)
    /\ inFlight' = inFlight + 1
    /\ pc' = "await_response"
    /\ UNCHANGED <<env, inputFile, exitCode, inputOpened, outputCreated, idx, cur, resp,
                   hunter, pending, headerState, buf, disk, statuses, results, handed,
                   failedAt, malformedAt, lookup, rows>>

(* Variant of ReceiveResponse that goes on to the next record after a
   transport error. *)
ReceiveResponse_IgnoreTransportError ==
    /\ pc = "await_response"
    /\ \E r \in Responses(cur.domain) :
         IF r.kind = "transport_error"
         THEN /\ failedAt' = idx
              /\ inFlight' = inFlight - 1
              /\ pc' = "loop"
              /\ UNCHANGED <<resp, statuses, exitCode, buf, disk>>
         ELSE /\ resp' = r
              /\ statuses' = Append(statuses, r.status)
              /\ pc' = "await_json"
              /\ UNCHANGED <<exitCode, buf, disk, failedAt, inFlight>>
    /\ UNCHANGED <<env, inputFile, inputOpened, outputCreated, idx, cur, hunter, pending,
                   headerState, issued, results, handed, malformedAt, lookup, rows>>

(* .await on the request: Err(e) prints and exits; Ok(r) is any HTTP
   response, whatever its status. *)
ReceiveResponse ==
    /\ pc = "await_response"
    /\ \E r \in Responses(cur.domain) :
         IF r.kind = "transport_error"
         THEN /\ failedAt' = idx
              /\ inFlight' = inFlight - 1
              /\ ProcessExit(1)
              /\ UNCHANGED <<resp, statuses>>
         ELSE /\ resp' = r
              /\ statuses' = Append(statuses, r.status)
              /\ pc' = "await_json"
              /\ UNCHANGED <<exitCode, buf, disk, failedAt, inFlight>>
    /\ UNCHANGED <<env, inputFile, inputOpened, outputCreated, idx, cur, hunter, pending,
                   headerState, issued, results, handed, malformedAt, lookup, rows>>

(* Variant of DecodeJson that goes on to the next record after a body that
   does not decode. *)
DecodeJson_SkipUndecodable ==
    /\ pc = "await_json"
    /\ inFlight' = inFlight - 1
    /\ LET d == DecodeHunter(resp.body)
       IN IF d.ok
          THEN /\ hunter' = d.val.data
               /\ pending' = d.val.data.emails
               /\ results' = Append(results, d.val.data)
               /\ pc' = "emails"
               /\ UNCHANGED <<exitCode, buf, disk, failedAt>>
          ELSE /\ failedAt' = idx
               /\ pc' = "loop"
               /\ UNCHANGED <<hunter, pending, results, exitCode, buf, disk>>
    /\ UNCHANGED <<env, inputFile, inputOpened, outputCreated, idx, cur, resp,
                   headerState, issued, statuses, handed, malformedAt, lookup, rows>>

(* Variant of DecodeJson that ends the loop over the records at a response
   without emails. *)
DecodeJson_StopOnNoEmails ==
    /\ pc = "await_json"
    /\ inFlight' = inFlight - 1
    /\ LET d == DecodeHunter(resp.body)
       IN IF d.ok
          THEN /\ hunter' = d.val.data
               /\ pending' = d.val.data.emails
               /\ results' = Append(results, d.val.data)
               /\ pc' = IF d.val.data.emails = <<>> THEN "flush" ELSE "emails"
               /\ UNCHANGED <<exitCode, buf, disk, failedAt>>
          ELSE /\ failedAt' = idx
               /\ ProcessExit(1)
               /\ UNCHANGED <<hunter, pending, results>>
    /\ UNCHANGED <<env, inputFile, inputOpened, outputCreated, idx, cur, resp,
                   headerState, issued, statuses, handed, malformedAt, lookup, rows>>

(* r.json::<Hunter>().await: a body that does not decode prints and exits;
   otherwise the domain-level fields are taken and the loop over the emails
   starts. *)
DecodeJson ==
    /\ pc = "await_json"
    /\ inFlight' = inFlight - 1
    /\ LET d == DecodeHunter(resp.body)
       IN IF d.ok
          THEN /\ hunter' = d.val.data
               /\ pending' = d.val.data.emails
               /\ results' = Append(results, d.val.data)
               /\ pc' = "emails"
               /\ UNCHANGED <<exitCode, buf, disk, failedAt>>
          ELSE /\ failedAt' = idx
               /\ ProcessExit(1)
               /\ UNCHANGED <<hunter, pending, results>>
    /\ UNCHANGED <<env, inputFile, inputOpened, outputCreated, idx, cur, resp,
                   headerState, issued, statuses, handed, malformedAt, lookup, rows>>

(* One turn of `for email in hunter.data.emails`: build the Flattened and
   wtr.serialize it. *)
WriteRow ==
    /\ pc = "emails"
    /\ pending /= <<>>
    /\ LET flattened == MakeFlattened(hunter, Head(pending))
           w == Serialize([header |-> headerState, buf |-> buf, disk |-> disk], flattened)
       IN /\ headerState' = w.header
          /\ buf' = w.buf
          /\ disk' = w.disk
          /\ handed' = Append(handed, [rec |-> idx, row |-> flattened])
    /\ pending' = Tail(pending)
    /\ UNCHANGED <<env, inputFile, pc, exitCode, inputOpened, outputCreated, idx, cur,
                   resp, hunter, issued, inFlight, statuses, results, failedAt,
                   malformedAt, lookup, rows>>

(* Variant of EndEmails that may leave the loop over the emails before it is
   exhausted. *)
EndEmails_LeaveEarly ==
    /\ pc = "emails"
    /\ Len(pending) < Len(hunter.emails) \/ pending = <<>>
    /\ pc' = "loop"
    /\ UNCHANGED <<env, inputFile, exitCode, inputOpened, outputCreated, idx, cur, resp,
                   hunter, pending, headerState, buf, disk, issued, inFlight, statuses,
                   results, handed, failedAt, malformedAt, lookup, rows>>

(* The loop over the emails is exhausted: on to the next input record. *)
EndEmails ==
    /\ pc = "emails"
    /\ pending = <<>>
    /\ pc' = "loop"
    /\ UNCHANGED <<env, inputFile, exitCode, inputOpened, outputCreated, idx, cur, resp,
                   hunter, pending, headerState, buf, disk, issued, inFlight, statuses,
                   results, handed, failedAt, malformedAt, lookup, rows>>

(* wtr.flush()?; Ok(()) *)
Flush ==
    /\ pc = "flush"
    /\ ReturnFromMain(0)
    /\ UNCHANGED <<env, inputFile, inputOpened, outputCreated, idx, cur, resp, hunter,
                   pending, headerState, issued, inFlight, statuses, results, handed,
                   failedAt, malformedAt, lookup, rows>>

Next ==
    \/ GetApiKey
    \/ ParseArgs
    \/ OpenReader
    \/ OpenWriter
    \/ NextRecord
    \/ SendRequest
    \/ ReceiveResponse
    \/ DecodeJson
    \/ WriteRow
    \/ EndEmails
    \/ Flush

Spec == Init /\ [][Next]_vars

(***************************************************************************)
(* Flattening in isolation: any LookupResult over small field values       *)
(***************************************************************************)
EmailPool ==
    {[value |-> "jane@acme.com", type |-> "personal", confidence |-> 90,
      sources |-> <<Source("acme.com")>>,
      first_name |-> Some("Jane"), last_name |-> Some("Doe"),
      position |-> Some("CTO"), seniority |-> None, department |-> None,
      linkedin |-> None, twitter |-> Some("jane"), phone_number |-> None],
     [value |-> "info@acme.com", type |-> "generic", confidence |-> 40,
      sources |-> <<>>,
      first_name |-> None, last_name |-> None,
      position |-> None, seniority |-> None, department |-> Some("support"),
      linkedin |-> None, twitter |-> None, phone_number |-> Some("555")],
     [value |-> "zed@acme.com", type |-> "personal", confidence |-> 0,
      sources |-> <<Source("blog.example"), Source("acme.com")>>,
      first_name |-> Some(""), last_name |-> None,
      position |-> None, seniority |-> Some("junior"), department |-> None,
      linkedin |-> Some("in/zed"), twitter |-> None, phone_number |-> None]}

LookupResults ==
    {[domain |-> "acme.com", disposable |-> d, webmail |-> FALSE, accept_all |-> TRUE,
      pattern |-> p, organization |-> Some("Acme Inc"), country |-> Some("US"),
      state |-> s, emails |-> es] :
        d \in BOOLEAN, p \in {None, Some("{first}")}, s \in {None, Some("CA")},
        es \in SeqsUpTo(EmailPool, MaxEmails)}

InitFlatten ==
    /\ env = [key |-> "valid", oldOutput |-> <<>>]
    /\ inputFile = [header |-> <<"name", "domain">>, rows |-> <<>>]
    /\ pc = "flatten"
    /\ exitCode = -1
    /\ inputOpened = FALSE
    /\ outputCreated = FALSE
    /\ idx = 0
    /\ cur = NoDomain
    /\ resp = NoResponse
    /\ hunter = Data("", 0)
    /\ pending = <<>>
    /\ headerState = "Write"
    /\ buf = <<>>
    /\ disk = <<>>
    /\ issued = <<>>
    /\ inFlight = 0
    /\ statuses = <<>>
    /\ results = <<>>
    /\ handed = <<>>
    /\ failedAt = 0
    /\ malformedAt = 0
    /\ lookup \in LookupResults
    /\ rows = <<>>

(* The whole loop over one response's emails, without the writer. *)
ApplyFlatten ==
    /\ pc = "flatten"
    /\ rows' = Flatten(lookup)
    /\ pc' = "flattened"
    /\ UNCHANGED <<env, inputFile, exitCode, inputOpened, outputCreated, idx, cur, resp,
                   hunter, pending, headerState, buf, disk, issued, inFlight, statuses,
                   results, handed, failedAt, malformedAt, lookup>>

NextFlatten == ApplyFlatten

SpecFlatten == InitFlatten /\ [][NextFlatten]_vars

(***************************************************************************)
(* Vocabulary of the properties                                            *)
(***************************************************************************)
RowLen == Len(HeaderRecord)

HandedRows == [p \in 1..Len(handed) |-> handed[p].row]

(* The file that holds the header and then the given rows, each encoded;
   no header when there is no row. *)
ExpectedFile(rs) ==
    IF rs = <<>> THEN <<>>
    ELSE HeaderRecord \o
         [c \in 1..(RowLen * Len(rs)) |->
             EncodeRow(rs[((c - 1) \div RowLen) + 1])[((c - 1) % RowLen) + 1]]

(* Where a whole header record starts in a sequence of cells. *)
HeaderPositions(s) ==
    {p \in 1..Len(s) : p + RowLen - 1 <= Len(s) /\ SubSeq(s, p, p + RowLen - 1) = HeaderRecord}

(* <<record, email address>> of every entry of the first n results, by
   record and then by position in the response. *)
RECURSIVE ExpectedKeys(_, _)
ExpectedKeys(res, n) ==
    IF n = 0 THEN <<>>
    ELSE ExpectedKeys(res, n - 1) \o
         [j \in 1..Len(res[n].emails) |-> <<n, res[n].emails[j].value>>]

HandedKeys == [p \in 1..Len(handed) |-> <<handed[p].rec, handed[p].row.value>>]

RowsHandedFor(i) == Cardinality({p \in 1..Len(handed) : handed[p].rec = i})

WellFormedRows(n) ==
    \A i \in 1..n : ParseRow(inputFile.header, inputFile.rows[i]).ok

(***************************************************************************)
(* Properties                                                              *)
(***************************************************************************)

(* C1: once the lookup for record i has failed (transport error or a body
   that does not decode), the process has exited with code 1 in that very
   step: lookups were issued for records 1..i only, none is in flight, and
   no row was handed to the writer for record i or a later one. *)
C1_FirstFailureAborts ==
    failedAt /= 0 =>
        /\ pc = "exit"
        /\ exitCode = 1
        /\ inFlight = 0
        /\ issued = [p \in 1..failedAt |-> p]
        /\ Len(results) = failedAt - 1
        /\ \A p \in 1..Len(handed) : handed[p].rec < failedAt

C1_Witness ==
    /\ failedAt = 1
    /\ pc = "exit"
    /\ Len(inputFile.rows) = 2
    /\ WellFormedRows(2)

(* C2: when the run ends because a lookup failed, the output file holds the
   header and exactly the rows handed to the writer before the failing
   record, in order. *)
C2_AbortKeepsHandedRows ==
    (pc = "exit" /\ failedAt /= 0) => disk = ExpectedFile(HandedRows)

(* C3: a run that reached the record loop, in which every row parsed and
   every lookup succeeded, has processed every record, has nothing left in
   the writer's buffer and has exit code 0; the file holds the header and
   every row of every response, by record and then by email position. *)
C3_SuccessfulRunComplete ==
    (pc = "exit" /\ outputCreated /\ malformedAt = 0 /\ failedAt = 0) =>
        /\ exitCode = 0
        /\ idx = Len(inputFile.rows)
        /\ Len(results) = Len(inputFile.rows)
        /\ issued = [p \in 1..Len(inputFile.rows) |-> p]
        /\ HandedKeys = ExpectedKeys(results, Len(results))
        /\ buf = <<>>
        /\ disk = ExpectedFile(HandedRows)

C3_Witness ==
    /\ pc = "exit"
    /\ exitCode = 0
    /\ Len(results) = 2
    /\ results[1].emails = <<>>
    /\ Len(results[2].emails) = 2
    /\ Len(disk) = 3 * RowLen

(* C4: with KEY unset the process only ever exits with code 1, and it has
   then opened no input file, created or truncated no output file (it is as
   it was before the run) and issued no lookup. *)
C4_NoKeyNoIO ==
    env.key = "unset" =>
        /\ pc \in {"start", "exit"}
        /\ pc = "exit" => exitCode = 1
        /\ ~inputOpened
        /\ ~outputCreated
        /\ disk = env.oldOutput
        /\ issued = <<>>

C4_Witness ==
    /\ env.key = "unset"
    /\ pc = "exit"
    /\ env.oldOutput /= <<>>
    /\ inputFile.rows /= <<>>

(* C5: the rows flattened from a LookupResult with k emails are k rows; row
   j carries the email-level fields of entry j and the eight domain-level
   fields of the LookupResult, and has the nineteen fields of Flattened and
   no other (nothing of a Source). *)
C5_FlattenMatchesReference ==
    pc = "flattened" =>
        /\ Len(rows) = Len(lookup.emails)
        /\ \A j \in 1..Len(rows) :
             LET r == rows[j]
                 e == lookup.emails[j]
             IN /\ DOMAIN r = Range(FieldNames)
                /\ r.domain = lookup.domain
                /\ r.disposable = lookup.disposable
                /\ r.webmail = lookup.webmail
                /\ r.accept_all = lookup.accept_all
                /\ r.pattern = lookup.pattern
                /\ r.organization = lookup.organization
                /\ r.country = lookup.country
                /\ r.state = lookup.state
                /\ r.value = e.value
                /\ r.type = e.type
                /\ r.confidence = e.confidence
                /\ r.first_name = e.first_name
                /\ r.last_name = e.last_name
                /\ r.position = e.position
                /\ r.seniority = e.seniority
                /\ r.department = e.department
                /\ r.linkedin = e.linkedin
                /\ r.twitter = e.twitter
                /\ r.phone_number = e.phone_number

C5_Witness ==
    /\ pc = "flattened"
    /\ Len(rows) = 2
    /\ rows[1] = rows[2]
    /\ lookup.emails[1].sources /= <<>>
    /\ lookup.state = None

(* C6: what the writer has put out (file, then buffer) never holds more than
   one header, a header only at its very start, and is always a prefix of
   "header, then the rows handed so far"; while the process runs it is
   exactly that. *)
C6_HeaderOnceAndFirst ==
    outputCreated =>
        LET s == disk \o buf
        IN /\ HeaderPositions(s) \subseteq {1}
           /\ IsPrefix(s, ExpectedFile(HandedRows))
           /\ pc /= "exit" => s = ExpectedFile(HandedRows)

C6_Witness ==
    /\ pc = "exit"
    /\ exitCode = 0
    /\ Len(handed) = 3
    /\ handed[1].rec = 1
    /\ handed[3].rec = 2
    /\ HeaderPositions(disk) = {1}

(* C7 as stated: once the response for record i had status 429, no row is
   handed to the writer for record i or a later one, and the process ends
   with exit code 1. *)
C7_Status429Aborts ==
    \A i \in 1..Len(statuses) :
        statuses[i] = 429 =>
            /\ \A p \in 1..Len(handed) : handed[p].rec < i
            /\ pc = "exit" => exitCode = 1

(* C7 as amended: once the response for record i had status 429 and a body
   that does not decode, the process has exited with code 1 and no row was
   handed to the writer for record i or a later one. *)
C7_Status429UndecodableAborts ==
    (/\ statuses /= <<>>
     /\ statuses[Len(statuses)] = 429
     /\ pc /= "await_json"
     /\ ~DecodeHunter(resp.body).ok) =>
        /\ pc = "exit"
        /\ exitCode = 1
        /\ failedAt = Len(statuses)
        /\ issued = [p \in 1..Len(statuses) |-> p]
        /\ \A p \in 1..Len(handed) : handed[p].rec < Len(statuses)

C7_Witness ==
    /\ Len(statuses) = 2
    /\ statuses[2] = 429
    /\ ~DecodeHunter(resp.body).ok
    /\ pc = "exit"
    /\ handed /= <<>>

(* C8: once input row i has failed to parse, the process has exited with
   code 1 and lookups were issued for rows 1..i-1 only; when i = 1 no lookup
   was issued and the output file holds no data row. *)
C8_MalformedRowAborts ==
    malformedAt /= 0 =>
        /\ pc = "exit"
        /\ exitCode = 1
        /\ issued = [p \in 1..(malformedAt - 1) |-> p]
        /\ malformedAt = 1 => (handed = <<>> /\ IsPrefix(disk, HeaderRecord))

C8_Witness ==
    /\ malformedAt = 2
    /\ pc = "exit"
    /\ Len(inputFile.rows[2]) /= Len(inputFile.header)
    /\ issued = <<1>>
    /\ handed /= <<>>

(* C9: at most one lookup is in flight, and only while main waits for it;
   lookups are issued in input order; and whenever a lookup has been issued
   for a record, every earlier record's lookup has completed and all of its
   rows have been handed to the writer. *)
C9_StrictlySequential ==
    /\ inFlight \in {0, 1}
    /\ inFlight = 1 <=> pc \in {"await_response", "await_json"}
    /\ \A p \in 1..Len(issued) :
         /\ issued[p] = p
         /\ \A i \in 1..(p - 1) :
              /\ i <= Len(results)
              /\ RowsHandedFor(i) = Len(results[i].emails)

C9_Witness ==
    /\ Len(issued) = 2
    /\ pc = "await_response"
    /\ Len(results[1].emails) = 2

(* C10: after a run that exits with code 0 the output file starts with the
   header if and only if a data row was written, and is empty when none
   was. *)
C10_HeaderOnlyWithData ==
    (pc = "exit" /\ exitCode = 0) =>
        /\ IsPrefix(HeaderRecord, disk) <=> handed /= <<>>
        /\ handed = <<>> => disk = <<>>

C10_Witness ==
    /\ pc = "exit"
    /\ exitCode = 0
    /\ Len(results) = 2
    /\ handed = <<>>
    /\ disk = <<>>
    /\ env.oldOutput /= <<>>

====
